---- MODULE Spec2Model ----
(***************************************************************************)
(* The symptom-checker intake wizard (src/src/components/symptom-form.tsx  *)
(* and the step components in src/unnamed/part_000 and part_001).          *)
(*                                                                         *)
(* The wizard is a React component.  One user event (a click, a change, a  *)
(* key press) runs its handler and every promise continuation the handler  *)
(* leaves behind (the zod validation of the resolver resolves in           *)
(* microtasks) before the next event is dispatched, so a handler together  *)
(* with the validation it triggers is one action.  The FileReader reads    *)
(* and the call of analyzeSymptoms complete in later tasks: each pending   *)
(* one is state, and its completion is an action of its own.               *)
(*                                                                         *)
(* An optional value (undefined in the source) is a sequence of length at  *)
(* most one: <<>> is undefined, <<x>> is the value x.  A FileList is the   *)
(* same: <<>> is the empty list, <<f>> holds the file f.                   *)
(***************************************************************************)
EXTENDS Integers, Sequences, FiniteSets, TLC

VARIABLES
    values,          \* the record react-hook-form holds (_formValues)
    errors,          \* formState.errors, as the set of paths carrying an error
    isValid,         \* formState.isValid
    isValidWatched,  \* formState.isValid has been read by a render
    currentStep,     \* useState(0)
    isLoading,       \* useState(false)
    results,         \* useState(null)
    error,           \* useState(null)
    imagePreview,    \* useState(null)
    inputFiles,      \* the files of the mounted #medicalImage-input element
    readers,         \* FileReaders started by handleImageChange, still reading
    inflight,        \* calls of onSubmit that have not returned
    last             \* the handler that ran last, and what it saw

vars == <<values, errors, isValid, isValidWatched, currentStep, isLoading,
          results, error, imagePreview, inputFiles, readers, inflight, last>>

(***************************************************************************)
(* Bounds of the model.                                                    *)
(***************************************************************************)
MaxSymptoms == 2
MaxReaders == 1
MaxInFlight == 2
MaxTextLen == 3
MaxBatch == 2

(***************************************************************************)
(* Program constants.                                                      *)
(***************************************************************************)
MAX_FILE_SIZE == 10485760
MaxDescriptionLength == 1000
ACCEPTED_IMAGE_TYPES ==
    {"image/jpeg", "image/jpg", "image/png", "image/webp", "image/dicom"}

steps == <<"profile", "symptoms", "medical-image", "medical-history", "review">>
LastStep == Len(steps) - 1
\* steps[i].id; steps[i] is undefined for an index outside the list.
StepId(i) == IF i \in 0..LastStep THEN steps[i + 1] ELSE "undefined"

None == <<>>
Some(x) == <<x>>
IsSome(o) == Len(o) > 0
Min2(a, b) == IF a < b THEN a ELSE b
Max2(a, b) == IF a > b THEN a ELSE b

(***************************************************************************)
(* The inputs the user can give.  A text is modelled by its content where  *)
(* the content matters and by its length where only the length does        *)
(* (imageDescription).                                                     *)
(***************************************************************************)
NameInputs == {"Jane"}
AgeInputs == {None, Some(0), Some(30)}
GenderInputs == {"Female"}
WeightInputs == {None, Some(0), Some(70)}
WeightUnitInputs == {"kg"}
HeightInputs == {None, Some(170)}
HeightUnitInputs == {"cm"}
SymptomNameInputs == {"Headache"}
SeverityInputs == {"Mild"}
DescriptionInputs == {0, 12, 1001}
\* The text of a textarea is the sequence of its characters: a letter, the
\* comma and the space stand for every character.
Chars == {"a", ",", " "}
Texts(n) == UNION {[1..k -> Chars] : k \in 0..n}
ConditionInputs == Texts(MaxTextLen)
MedicationInputs == {<< >>, <<"a">>, <<" ", "a", ",">>}
GoodFile == [size |-> 1048576, type |-> "image/png"]
BigFile == [size |-> 10485761, type |-> "image/png"]
PdfFile == [size |-> 2048, type |-> "application/pdf"]
FileInputs == {GoodFile, BigFile, PdfFile}

(***************************************************************************)
(* Paths of formState.errors.  A top-level field has i = 0 and k = "".     *)
(* symptoms.<i-1>.<k> is [f |-> "symptoms", i |-> i, k |-> k], and the     *)
(* root error of the symptoms array is [f |-> "symptoms", i |-> 0, ...].   *)
(***************************************************************************)
P(f) == [f |-> f, i |-> 0, k |-> ""]
SP(i, k) == [f |-> "symptoms", i |-> i, k |-> k]
HasError(errs, name) == \E p \in errs : p.f = name

ProfileFields == {"name", "age", "gender", "weight", "weightUnit", "height", "heightUnit"}
AllFields == ProfileFields \cup {"symptoms", "medicalHistory", "medicalImage", "imageDescription"}

defaultValues ==
    [name |-> "", age |-> None, weight |-> None, weightUnit |-> None,
     height |-> None, heightUnit |-> None, gender |-> "",
     symptoms |-> << [name |-> "", severity |-> ""] >>,
     medicalHistory |-> [pastConditions |-> << >>, currentMedications |-> << >>],
     medicalImage |-> None, imageDescription |-> Some(0)]

(***************************************************************************)
(* zod.  A field whose type is wrong (age undefined coerces to NaN) aborts *)
(* the object, and the refinements chained on an aborted object do not     *)
(* run; a failed check (min, positive, max, a field refinement) leaves the *)
(* object dirty and the chained refinements run.                           *)
(***************************************************************************)
TruthyNumber(o) == IsSome(o) /\ o[1] # 0
TruthyString(o) == IsSome(o) /\ o[1] # ""

symptomSchema(v) ==
    UNION {
        (IF v.symptoms[i].name = "" THEN {SP(i, "name")} ELSE {}) \cup
        (IF v.symptoms[i].severity = "" THEN {SP(i, "severity")} ELSE {})
        : i \in 1..Len(v.symptoms) }

fieldSchema(v) ==
    (IF v.name = "" THEN {P("name")} ELSE {}) \cup
    (IF ~IsSome(v.age) \/ v.age[1] < 1 THEN {P("age")} ELSE {}) \cup
    (IF IsSome(v.weight) /\ v.weight[1] <= 0 THEN {P("weight")} ELSE {}) \cup
    (IF IsSome(v.height) /\ v.height[1] <= 0 THEN {P("height")} ELSE {}) \cup
    (IF v.gender = "" THEN {P("gender")} ELSE {}) \cup
    (IF Len(v.symptoms) < 1 THEN {P("symptoms")} ELSE {}) \cup
    symptomSchema(v) \cup
    (IF IsSome(v.medicalImage) /\
        (v.medicalImage[1].size > MAX_FILE_SIZE \/
         v.medicalImage[1].type \notin ACCEPTED_IMAGE_TYPES)
     THEN {P("medicalImage")} ELSE {}) \cup
    (IF IsSome(v.imageDescription) /\ v.imageDescription[1] > MaxDescriptionLength
     THEN {P("imageDescription")} ELSE {})

aborted(v) == ~IsSome(v.age)

refinements(v) ==
    (IF TruthyNumber(v.weight) /\ ~TruthyString(v.weightUnit) THEN {P("weightUnit")} ELSE {}) \cup
    (IF TruthyNumber(v.height) /\ ~TruthyString(v.heightUnit) THEN {P("heightUnit")} ELSE {}) \cup
    (IF IsSome(v.medicalImage) /\ ~TruthyNumber(v.imageDescription)
     THEN {P("imageDescription")} ELSE {})

\* formSchema without its refinements.
formSchemaFieldsOnly(v) == fieldSchema(v)

formSchema(v) ==
    fieldSchema(v) \cup (IF aborted(v) THEN {} ELSE refinements(v))

(***************************************************************************)
(* react-hook-form with the zod resolver, mode "onChange".                 *)
(*   trigger(names) runs the schema on the whole record and, for each name *)
(*   given, stores the error found under it or unsets it; it leaves the    *)
(*   other paths alone and stores the validity of the whole record.        *)
(*   A change of a field does the same for that field's path; isValid      *)
(*   follows only while a render subscribes to it.                         *)
(***************************************************************************)
trigger(v, errs, names) ==
    {p \in errs : p.f \notin names} \cup {p \in formSchema(v) : p.f \in names}

clearErrors(errs, name) == {p \in errs : p.f # name}

validOf(v) == formSchema(v) = {}

watchedValid(v) == IF isValidWatched THEN validOf(v) ELSE isValid

\* The form is rendered while there is no result; rendering it reads
\* steps[currentStep].title and throws for an index outside the list, which
\* takes the component down.
FormShown == results = None /\ currentStep \in 0..LastStep

\* The footer reads formState.isValid only when it renders the review step.
Render(step, res) ==
    isValidWatched' = (isValidWatched \/ (step = LastStep /\ res = None))

\* MedicalImageStep is mounted while the form shows the medical-image step.
ImageStepMounted(step, res) == res = None /\ StepId(step) = "medical-image"

\* When MedicalImageStep unmounts, its file input leaves the document: the
\* readers still reading keep the files that element held.
Remount(step, res) ==
    IF ImageStepMounted(currentStep, results) /\ ~ImageStepMounted(step, res)
    THEN /\ readers' = [i \in 1..Len(readers) |->
                           IF readers[i].detached THEN readers[i]
                           ELSE [readers[i] EXCEPT !.detached = TRUE, !.files = inputFiles]]
         /\ inputFiles' = None
    ELSE UNCHANGED <<readers, inputFiles>>

\* The record of the handler that ran: its name, whether it went through
\* (next: the step was valid; submit: onSubmit was called), whether
\* analyzeSymptoms was called, and the step it ran on.
Done(op, ok, called) ==
    last' = [op |-> op, ok |-> ok, called |-> called, had |-> FALSE, at |-> currentStep,
             afterAdvance |-> FALSE]

\* The same for a continuation of onSubmit: at is the step it was started on.
Settled(op, ok, called, at) ==
    last' = [op |-> op, ok |-> ok, called |-> called, had |-> FALSE, at |-> at,
             afterAdvance |-> FALSE]

\* The record of goToPreviousStep: afterAdvance tells that the handler before
\* it was a goToNextStep that moved the wizard forward.
DonePrevious ==
    last' = [op |-> "previous", ok |-> TRUE, called |-> FALSE, had |-> FALSE,
             at |-> currentStep,
             afterAdvance |-> last.op = "next" /\ last.ok /\ last.at < currentStep]

\* field.onChange of a Controller: the value, then the validation of its path.
onChange(path, nv) ==
    /\ values' = nv
    /\ errors' = (errors \ {path}) \cup (formSchema(nv) \cap {path})
    /\ isValid' = watchedValid(nv)
    /\ UNCHANGED <<isValidWatched, currentStep, isLoading, results, error,
                   imagePreview, inputFiles, readers, inflight>>

OnStep(id) == FormShown /\ StepId(currentStep) = id

(***************************************************************************)
(* The profile step.                                                       *)
(***************************************************************************)
ChangeName(x) ==
    /\ OnStep("profile") /\ x # values.name
    /\ onChange(P("name"), [values EXCEPT !.name = x])
    /\ Done("change", TRUE, FALSE)

ChangeAge(x) ==
    /\ OnStep("profile") /\ x # values.age
    /\ onChange(P("age"), [values EXCEPT !.age = x])
    /\ Done("change", TRUE, FALSE)

ChangeGender(x) ==
    /\ OnStep("profile") /\ x # values.gender
    /\ onChange(P("gender"), [values EXCEPT !.gender = x])
    /\ Done("change", TRUE, FALSE)

ChangeWeight(x) ==
    /\ OnStep("profile") /\ x # values.weight
    /\ onChange(P("weight"), [values EXCEPT !.weight = x])
    /\ Done("change", TRUE, FALSE)

\* The unit select is disabled while the magnitude is falsy.
ChangeWeightUnit(x) ==
    /\ OnStep("profile") /\ TruthyNumber(values.weight) /\ Some(x) # values.weightUnit
    /\ onChange(P("weightUnit"), [values EXCEPT !.weightUnit = Some(x)])
    /\ Done("change", TRUE, FALSE)

ChangeHeight(x) ==
    /\ OnStep("profile") /\ x # values.height
    /\ onChange(P("height"), [values EXCEPT !.height = x])
    /\ Done("change", TRUE, FALSE)

ChangeHeightUnit(x) ==
    /\ OnStep("profile") /\ TruthyNumber(values.height) /\ Some(x) # values.heightUnit
    /\ onChange(P("heightUnit"), [values EXCEPT !.heightUnit = Some(x)])
    /\ Done("change", TRUE, FALSE)

(***************************************************************************)
(* The symptoms step (useFieldArray on "symptoms").                        *)
(***************************************************************************)
ChangeSymptomName(i, x) ==
    /\ OnStep("symptoms") /\ i \in 1..Len(values.symptoms)
    /\ x # values.symptoms[i].name
    /\ onChange(SP(i, "name"), [values EXCEPT !.symptoms[i].name = x])
    /\ Done("change", TRUE, FALSE)

ChangeSeverity(i, x) ==
    /\ OnStep("symptoms") /\ i \in 1..Len(values.symptoms)
    /\ x # values.symptoms[i].severity
    /\ onChange(SP(i, "severity"), [values EXCEPT !.symptoms[i].severity = x])
    /\ Done("change", TRUE, FALSE)

\* append({name: '', severity: ''}): the new row carries no error until it
\* is validated.
AppendSymptom ==
    /\ OnStep("symptoms") /\ Len(values.symptoms) < MaxSymptoms
    /\ values' = [values EXCEPT !.symptoms = Append(@, [name |-> "", severity |-> ""])]
    /\ isValid' = watchedValid(values')
    /\ Done("append", TRUE, FALSE)
    /\ UNCHANGED <<errors, isValidWatched, currentStep, isLoading, results, error,
                   imagePreview, inputFiles, readers, inflight>>

RemoveAt(s, i) == [j \in 1..(Len(s) - 1) |-> IF j < i THEN s[j] ELSE s[j + 1]]

\* A remove(index) whose button is never disabled.
RemoveSymptomUnguarded(i) ==
    /\ OnStep("symptoms") /\ i \in 1..Len(values.symptoms)
    /\ values' = [values EXCEPT !.symptoms = RemoveAt(@, i)]
    /\ errors' = {p \in errors : p.f # "symptoms" \/ p.i < i} \cup
                 {SP(p.i - 1, p.k) : p \in {q \in errors : q.f = "symptoms" /\ q.i > i}}
    /\ isValid' = watchedValid(values')
    /\ Done("remove", TRUE, FALSE)
    /\ UNCHANGED <<isValidWatched, currentStep, isLoading, results, error,
                   imagePreview, inputFiles, readers, inflight>>

\* remove(index): the button is disabled while a single row is left.  The
\* errors of the rows after it move up with them.
RemoveSymptom(i) ==
    /\ OnStep("symptoms") /\ i \in 1..Len(values.symptoms)
    /\ ~(Len(values.symptoms) <= 1)
    /\ values' = [values EXCEPT !.symptoms = RemoveAt(@, i)]
    /\ errors' = {p \in errors : p.f # "symptoms" \/ p.i < i} \cup
                 {SP(p.i - 1, p.k) : p \in {q \in errors : q.f = "symptoms" /\ q.i > i}}
    /\ isValid' = watchedValid(values')
    /\ Done("remove", TRUE, FALSE)
    /\ UNCHANGED <<isValidWatched, currentStep, isLoading, results, error,
                   imagePreview, inputFiles, readers, inflight>>

(***************************************************************************)
(* The medical-image step.                                                 *)
(***************************************************************************)
DataUri(file) == [mime |-> file.type, bytes |-> file.size]

\* setValue(name, value, {shouldValidate: true}) is the value and then
\* trigger(name).
setValueValidate(v, errs, name, x) ==
    [v |-> [v EXCEPT ![name] = x],
     e |-> trigger([v EXCEPT ![name] = x], errs, {name})]

\* The branch of handleImageChange that refuses a file: setError, then the
\* setValue that validates medicalImage again.
RejectFile ==
    LET r == setValueValidate(values, errors \cup {P("medicalImage")}, "medicalImage", None)
    IN /\ imagePreview' = None
       /\ values' = r.v
       /\ errors' = r.e
       /\ isValid' = validOf(r.v)
       /\ inputFiles' = None
       /\ UNCHANGED readers

\* The branch that accepts a file: clearErrors, then a FileReader is started.
AcceptFile(file) ==
    /\ Len(readers) < MaxReaders
    /\ errors' = clearErrors(errors, "medicalImage")
    /\ readers' = Append(readers, [file |-> file, detached |-> FALSE, files |-> None])
    /\ inputFiles' = Some(file)
    /\ UNCHANGED <<values, isValid, imagePreview>>

\* The branch for a change event that carries no file.
NoFile ==
    LET r == setValueValidate(values, errors, "medicalImage", None)
    IN /\ imagePreview' = None
       /\ values' = r.v
       /\ errors' = r.e
       /\ isValid' = validOf(r.v)
       /\ inputFiles' = None
       /\ UNCHANGED readers

handleImageChange(sel) ==
    /\ OnStep("medical-image") /\ sel # inputFiles
    /\ IF IsSome(sel)
       THEN IF sel[1].size > MAX_FILE_SIZE THEN RejectFile
            ELSE IF sel[1].type \notin ACCEPTED_IMAGE_TYPES THEN RejectFile
            ELSE AcceptFile(sel[1])
       ELSE NoFile
    /\ Done(IF ~IsSome(sel) THEN "imageCleared"
            ELSE IF sel[1].size > MAX_FILE_SIZE \/ sel[1].type \notin ACCEPTED_IMAGE_TYPES
                 THEN "imageRejected"
                 ELSE "image",
            TRUE, FALSE)
    /\ UNCHANGED <<isValidWatched, currentStep, isLoading, results, error, inflight>>

\* event.target.files as the reader's callbacks see it.
TargetFiles(r) == IF r.detached THEN r.files ELSE inputFiles

\* reader.onloadend after a read that succeeded.
ReaderLoadEnd(i) ==
    /\ i \in 1..Len(readers)
    /\ LET r == setValueValidate(values, errors, "medicalImage", TargetFiles(readers[i]))
       IN /\ imagePreview' = Some(DataUri(readers[i].file))
          /\ values' = r.v
          /\ errors' = r.e
          /\ isValid' = validOf(r.v)
    /\ readers' = RemoveAt(readers, i)
    /\ Done("loadend", TRUE, FALSE)
    /\ UNCHANGED <<isValidWatched, currentStep, isLoading, results, error,
                   inputFiles, inflight>>

\* reader.onerror, and the onloadend that follows it with no result and the
\* input already emptied.
ReaderError(i) ==
    /\ i \in 1..Len(readers)
    /\ LET r == setValueValidate(values, errors, "medicalImage", None)
       IN /\ imagePreview' = None
          /\ values' = r.v
          /\ errors' = r.e
          /\ isValid' = validOf(r.v)
    /\ inputFiles' = IF readers[i].detached THEN inputFiles ELSE None
    /\ readers' = RemoveAt(readers, i)
    /\ Done("readerror", TRUE, FALSE)
    /\ UNCHANGED <<isValidWatched, currentStep, isLoading, results, error, inflight>>

\* A removeImage that leaves the description as it is.
removeImageKeepsDescription ==
    /\ OnStep("medical-image") /\ IsSome(imagePreview)
    /\ LET r1 == setValueValidate(values, errors, "medicalImage", None)
       IN /\ imagePreview' = None
          /\ values' = r1.v
          /\ errors' = clearErrors(clearErrors(r1.e, "medicalImage"), "imageDescription")
          /\ isValid' = validOf(r1.v)
    /\ inputFiles' = None
    /\ last' = [op |-> "removeImage", ok |-> TRUE, called |-> FALSE,
                had |-> IsSome(values.medicalImage) /\ TruthyNumber(values.imageDescription),
                at |-> currentStep, afterAdvance |-> FALSE]
    /\ UNCHANGED <<isValidWatched, currentStep, isLoading, results, error,
                   readers, inflight>>

\* The remove button is rendered while there is a preview.
removeImage ==
    /\ OnStep("medical-image") /\ IsSome(imagePreview)
    /\ LET r1 == setValueValidate(values, errors, "medicalImage", None)
           r2 == setValueValidate(r1.v, r1.e, "imageDescription", None)
       IN /\ imagePreview' = None
          /\ values' = r2.v
          /\ errors' = clearErrors(clearErrors(r2.e, "medicalImage"), "imageDescription")
          /\ isValid' = validOf(r2.v)
    /\ inputFiles' = None
    /\ last' = [op |-> "removeImage", ok |-> TRUE, called |-> FALSE,
                had |-> IsSome(values.medicalImage) /\ TruthyNumber(values.imageDescription),
                at |-> currentStep, afterAdvance |-> FALSE]
    /\ UNCHANGED <<isValidWatched, currentStep, isLoading, results, error,
                   readers, inflight>>

\* The description textarea is rendered whether or not an image is chosen.
ChangeDescription(n) ==
    /\ OnStep("medical-image")
    /\ n # (IF IsSome(values.imageDescription) THEN values.imageDescription[1] ELSE 0)
    /\ onChange(P("imageDescription"), [values EXCEPT !.imageDescription = Some(n)])
    /\ Done("change", TRUE, FALSE)

(***************************************************************************)
(* The medical-history step.                                               *)
(***************************************************************************)
ChangePastConditions(x) ==
    /\ OnStep("medical-history") /\ x # values.medicalHistory.pastConditions
    /\ onChange(P("medicalHistory"), [values EXCEPT !.medicalHistory.pastConditions = x])
    /\ Done("change", TRUE, FALSE)

ChangeCurrentMedications(x) ==
    /\ OnStep("medical-history") /\ x # values.medicalHistory.currentMedications
    /\ onChange(P("medicalHistory"), [values EXCEPT !.medicalHistory.currentMedications = x])
    /\ Done("change", TRUE, FALSE)

(***************************************************************************)
(* Navigation.  The handlers are the controller's operations next(),       *)
(* previous() and skip(): they are callable on every step, also where the  *)
(* footer renders no button for them.                                      *)
(***************************************************************************)
\* A goToNextStep that triggers the whole record on every step.
ScopedFieldsWholeRecord(id) == AllFields

ScopedFields(id) ==
    CASE id = "profile" -> ProfileFields
      [] id = "symptoms" -> {"symptoms"}
      [] OTHER -> {}

\* A goToNextStep that ignores what trigger returned.
stepValidAlways(id) == TRUE

\* What goToNextStep awaits or reads before it moves on.
stepValid(id) ==
    CASE id \in {"profile", "symptoms"} ->
             ~\E p \in formSchema(values) : p.f \in ScopedFields(id)
      [] id = "medical-image" -> ~HasError(errors, "medicalImage")
      [] OTHER -> TRUE

Navigate(step) ==
    /\ currentStep' = step
    /\ Render(step, results)
    /\ Remount(step, results)

goToNextStep ==
    /\ FormShown
    /\ LET stepId == StepId(currentStep)
           triggers == stepId \in {"profile", "symptoms"}
       IN /\ errors' = IF triggers THEN trigger(values, errors, ScopedFields(stepId))
                        ELSE errors
          /\ isValid' = IF triggers THEN validOf(values) ELSE isValid
          /\ IF stepValid(stepId)
             THEN Navigate(Min2(currentStep + 1, Len(steps) - 1))
             ELSE Navigate(currentStep)
          /\ Done("next", stepValid(stepId), FALSE)
    /\ UNCHANGED <<values, isLoading, results, error, imagePreview, inflight>>

\* A goToPreviousStep that validates the step it leaves, as goToNextStep does.
goToPreviousStepValidated ==
    /\ FormShown
    /\ IF stepValid(StepId(currentStep))
       THEN Navigate(Max2(currentStep - 1, 0))
       ELSE Navigate(currentStep)
    /\ Done("previous", TRUE, FALSE)
    /\ UNCHANGED <<values, errors, isValid, isLoading, results, error,
                   imagePreview, inflight>>

\* A goToPreviousStep that goes back to the first step.
goToPreviousStepToStart ==
    /\ FormShown
    /\ Navigate(0)
    /\ DonePrevious
    /\ UNCHANGED <<values, errors, isValid, isLoading, results, error,
                   imagePreview, inflight>>

goToPreviousStep ==
    /\ FormShown
    /\ Navigate(Max2(currentStep - 1, 0))
    /\ DonePrevious
    /\ UNCHANGED <<values, errors, isValid, isLoading, results, error,
                   imagePreview, inflight>>

\* A skipStep without its test of the step.
skipStepAnyStep ==
    /\ FormShown
    /\ Navigate(Min2(currentStep + 1, Len(steps) - 1))
    /\ Done("skip", TRUE, FALSE)
    /\ UNCHANGED <<values, errors, isValid, isLoading, results, error,
                   imagePreview, inflight>>

skipStep ==
    /\ FormShown
    /\ LET stepId == StepId(currentStep)
       IN IF stepId = "medical-image" \/ stepId = "medical-history"
          THEN Navigate(currentStep + 1)
          ELSE Navigate(currentStep)
    /\ Done("skip", TRUE, FALSE)
    /\ UNCHANGED <<values, errors, isValid, isLoading, results, error,
                   imagePreview, inflight>>

\* n calls of skipStep made from one render, before React renders again:
\* each reads the step of that render and queues its own prev => prev + 1.
skipStepTimes(n) ==
    /\ FormShown
    /\ LET stepId == StepId(currentStep)
       IN IF stepId = "medical-image" \/ stepId = "medical-history"
          THEN Navigate(currentStep + n)
          ELSE Navigate(currentStep)
    /\ Done("skip", TRUE, FALSE)
    /\ UNCHANGED <<values, errors, isValid, isLoading, results, error,
                   imagePreview, inflight>>

\* n calls of goToNextStep made from one render: each awaits the same
\* trigger and queues its own prev => Math.min(prev + 1, steps.length - 1).
goToNextStepTimes(n) ==
    /\ FormShown
    /\ LET stepId == StepId(currentStep)
           triggers == stepId \in {"profile", "symptoms"}
       IN /\ errors' = IF triggers THEN trigger(values, errors, ScopedFields(stepId))
                        ELSE errors
          /\ isValid' = IF triggers THEN validOf(values) ELSE isValid
          /\ IF stepValid(stepId)
             THEN Navigate(Min2(currentStep + n, Len(steps) - 1))
             ELSE Navigate(currentStep)
          /\ Done("next", stepValid(stepId), FALSE)
    /\ UNCHANGED <<values, isLoading, results, error, imagePreview, inflight>>

(***************************************************************************)
(* Submission.  methods.handleSubmit(onSubmit) validates the whole record, *)
(* replaces formState.errors by what it found and calls onSubmit only when *)
(* there is none.  onSubmit awaits fileToDataUri when the record holds an  *)
(* image and then awaits analyzeSymptoms.                                  *)
(***************************************************************************)
\* What onSubmit still reads of data after it has awaited fileToDataUri.
Pending(data) == [medicalImage |-> data.medicalImage, medicalHistory |-> data.medicalHistory]
\* A call of onSubmit that has not returned: what it awaits, what it still
\* reads, and (for the record only) the step it was started on.
Encoding(data, at) ==
    [phase |-> "encoding", data |-> Some(Pending(data)), input |-> None, at |-> at]
Analyzing(input, at) ==
    [phase |-> "analyzing", data |-> None, input |-> Some(input), at |-> at]

\* String.prototype.split, trim and Array.prototype.filter(s => s), on
\* sequences of characters.
IndexOf(s, c) ==
    IF \E i \in DOMAIN s : s[i] = c
    THEN CHOOSE i \in DOMAIN s : s[i] = c /\ \A j \in 1..(i - 1) : s[j] # c
    ELSE 0

RECURSIVE split(_, _)
split(s, sep) ==
    LET i == IndexOf(s, sep)
    IN IF i = 0 THEN << s >>
       ELSE << SubSeq(s, 1, i - 1) >> \o split(SubSeq(s, i + 1, Len(s)), sep)

RECURSIVE trimStart(_)
trimStart(s) == IF s # << >> /\ Head(s) = " " THEN trimStart(Tail(s)) ELSE s

RECURSIVE trimEnd(_)
trimEnd(s) ==
    IF s # << >> /\ s[Len(s)] = " " THEN trimEnd(SubSeq(s, 1, Len(s) - 1)) ELSE s

\* A trim that strips the leading spaces only.
trimStartOnly(s) == trimStart(s)

trim(s) == trimEnd(trimStart(s))

filterTruthy(xs) == SelectSeq(xs, LAMBDA x : x # << >>)

splitTrimFilter(text) ==
    LET parts == split(text, ",")
    IN filterTruthy([i \in DOMAIN parts |-> trim(parts[i])])

formattedMedicalHistory(data) ==
    [pastConditions |-> splitTrimFilter(data.medicalHistory.pastConditions),
     currentMedications |-> splitTrimFilter(data.medicalHistory.currentMedications)]

\* The AnalyzeSymptomsInput onSubmit builds: the fields it copies from data
\* as they are (name, age, weight, height, units, gender, symptoms) are
\* left out.
AnalyzeSymptomsInput(data, imageDataUri) ==
    [medicalHistory |-> formattedMedicalHistory(data), imageDataUri |-> imageDataUri]

onSubmit(data) ==
    /\ Len(inflight) < MaxInFlight
    /\ isLoading' = TRUE
    /\ error' = None
    /\ results' = None
    /\ inflight' = Append(inflight,
                          IF IsSome(data.medicalImage) /\ Len(data.medicalImage) > 0
                          THEN Encoding(data, currentStep)
                          ELSE Analyzing(AnalyzeSymptomsInput(data, None), currentStep))

handleSubmit ==
    /\ errors' = formSchema(values)
    /\ IF formSchema(values) = {}
       THEN /\ onSubmit(values)
            /\ Done("submit", TRUE, ~IsSome(values.medicalImage))
       ELSE /\ UNCHANGED <<isLoading, error, results, inflight>>
            /\ Done("submit", FALSE, FALSE)
    /\ Render(currentStep, results')
    /\ Remount(currentStep, results')
    /\ UNCHANGED <<values, isValid, currentStep, imagePreview>>

\* The submit button: rendered on the last step, disabled while loading or
\* while formState.isValid is false.
SubmitDisabled == isLoading \/ ~isValid

ClickSubmit ==
    /\ FormShown /\ ~(currentStep < Len(steps) - 1)
    /\ ~SubmitDisabled
    /\ handleSubmit

\* Enter in the only text input of a form that renders no submit button
\* submits the form: the symptoms step with a single symptom row.
EnterInSymptomName ==
    /\ OnStep("symptoms") /\ Len(values.symptoms) = 1
    /\ handleSubmit

\* fileToDataUri resolved: the payload is built and analyzeSymptoms is called.
EncodeDone(i) ==
    /\ i \in 1..Len(inflight) /\ inflight[i].phase = "encoding"
    /\ LET data == inflight[i].data[1]
           imageDataUri == Some(DataUri(data.medicalImage[1]))
       IN inflight' = [inflight EXCEPT
                          ![i] = Analyzing(AnalyzeSymptomsInput(data, imageDataUri),
                                           inflight[i].at)]
    /\ Settled("encoded", TRUE, TRUE, inflight[i].at)
    /\ UNCHANGED <<values, errors, isValid, isValidWatched, currentStep, isLoading,
                   results, error, imagePreview, inputFiles, readers>>

\* fileToDataUri rejected.
EncodeFail(i) ==
    /\ i \in 1..Len(inflight) /\ inflight[i].phase = "encoding"
    /\ error' = Some("Failed to process the uploaded image. Please try again.")
    /\ isLoading' = FALSE
    /\ inflight' = RemoveAt(inflight, i)
    /\ Settled("encodeFailed", FALSE, FALSE, inflight[i].at)
    /\ UNCHANGED <<values, errors, isValid, isValidWatched, currentStep,
                   results, imagePreview, inputFiles, readers>>

\* analyzeSymptoms resolved.
AnalyzeResolve(i) ==
    /\ i \in 1..Len(inflight) /\ inflight[i].phase = "analyzing"
    /\ results' = Some("diagnosis")
    /\ isLoading' = FALSE
    /\ inflight' = RemoveAt(inflight, i)
    /\ Render(currentStep, results')
    /\ Remount(currentStep, results')
    /\ Settled("analyzed", TRUE, FALSE, inflight[i].at)
    /\ UNCHANGED <<values, errors, isValid, currentStep, error, imagePreview>>

\* analyzeSymptoms rejected, in an onSubmit without its finally block.
AnalyzeRejectNoFinally(i) ==
    /\ i \in 1..Len(inflight) /\ inflight[i].phase = "analyzing"
    /\ error' = Some("An error occurred while analyzing symptoms.")
    /\ inflight' = RemoveAt(inflight, i)
    /\ Settled("analyzeFailed", FALSE, FALSE, inflight[i].at)
    /\ UNCHANGED <<values, errors, isValid, isValidWatched, currentStep, isLoading,
                   results, imagePreview, inputFiles, readers>>

\* analyzeSymptoms rejected.
AnalyzeReject(i) ==
    /\ i \in 1..Len(inflight) /\ inflight[i].phase = "analyzing"
    /\ error' = Some("An error occurred while analyzing symptoms.")
    /\ isLoading' = FALSE
    /\ inflight' = RemoveAt(inflight, i)
    /\ Settled("analyzeFailed", FALSE, FALSE, inflight[i].at)
    /\ UNCHANGED <<values, errors, isValid, isValidWatched, currentStep,
                   results, imagePreview, inputFiles, readers>>

\* "Start New Assessment", rendered in place of the form while results is set.
StartNewAssessment ==
    /\ results # None
    /\ results' = None
    /\ values' = defaultValues
    /\ errors' = {}
    /\ isValid' = watchedValid(defaultValues)
    /\ currentStep' = 0
    /\ imagePreview' = None
    /\ Render(0, results')
    /\ Remount(0, results')
    /\ Done("reset", TRUE, FALSE)
    /\ UNCHANGED <<isLoading, error, inflight>>

(***************************************************************************)
(* The whole wizard: every handler, every input.                           *)
(***************************************************************************)
Init ==
    /\ values = defaultValues
    /\ errors = {}
    /\ isValid = FALSE
    /\ isValidWatched = FALSE
    /\ currentStep = 0
    /\ isLoading = FALSE
    /\ results = None
    /\ error = None
    /\ imagePreview = None
    /\ inputFiles = None
    /\ readers = <<>>
    /\ inflight = <<>>
    /\ last = [op |-> "init", ok |-> TRUE, called |-> FALSE, had |-> FALSE, at |-> 0,
               afterAdvance |-> FALSE]

ProfileEdits ==
    \/ \E x \in NameInputs : ChangeName(x)
    \/ \E x \in AgeInputs : ChangeAge(x)
    \/ \E x \in GenderInputs : ChangeGender(x)
    \/ \E x \in WeightInputs : ChangeWeight(x)
    \/ \E x \in WeightUnitInputs : ChangeWeightUnit(x)
    \/ \E x \in HeightInputs : ChangeHeight(x)
    \/ \E x \in HeightUnitInputs : ChangeHeightUnit(x)

SymptomEdits ==
    \/ \E i \in 1..MaxSymptoms, x \in SymptomNameInputs : ChangeSymptomName(i, x)
    \/ \E i \in 1..MaxSymptoms, x \in SeverityInputs : ChangeSeverity(i, x)
    \/ AppendSymptom
    \/ \E i \in 1..MaxSymptoms : RemoveSymptom(i)

ImageEdits ==
    \/ \E f \in FileInputs : handleImageChange(Some(f))
    \/ handleImageChange(None)
    \/ \E i \in 1..MaxReaders : ReaderLoadEnd(i)
    \/ \E i \in 1..MaxReaders : ReaderError(i)
    \/ removeImage
    \/ \E n \in DescriptionInputs : ChangeDescription(n)

HistoryEdits ==
    \/ \E x \in ConditionInputs : ChangePastConditions(x)
    \/ \E x \in MedicationInputs : ChangeCurrentMedications(x)

Navigation ==
    \/ goToNextStep
    \/ goToPreviousStep
    \/ skipStep

Submission ==
    \/ ClickSubmit
    \/ EnterInSymptomName
    \/ \E i \in 1..MaxInFlight : EncodeDone(i)
    \/ \E i \in 1..MaxInFlight : EncodeFail(i)
    \/ \E i \in 1..MaxInFlight : AnalyzeResolve(i)
    \/ \E i \in 1..MaxInFlight : AnalyzeReject(i)
    \/ StartNewAssessment

Next ==
    \/ ProfileEdits
    \/ SymptomEdits
    \/ ImageEdits
    \/ HistoryEdits
    \/ Navigation
    \/ Submission

Spec == Init /\ [][Next]_vars

(***************************************************************************)
(* The wizard with the profile and symptoms steps filled in every way and  *)
(* the optional steps left as they are.                                    *)
(***************************************************************************)
NextNav ==
    \/ ProfileEdits
    \/ SymptomEdits
    \/ Navigation

SpecNav == Init /\ [][NextNav]_vars

(***************************************************************************)
(* The medical-image step, entered with a profile and a symptom that       *)
(* passed next() on the first two steps.                                   *)
(***************************************************************************)
filledValues ==
    [defaultValues EXCEPT !.name = "Jane", !.age = Some(30), !.gender = "Female",
                          !.symptoms = << [name |-> "Headache", severity |-> "Mild"] >>]

InitImage ==
    /\ values = filledValues
    /\ errors = {}
    /\ isValid = TRUE
    /\ isValidWatched = FALSE
    /\ currentStep = 2
    /\ isLoading = FALSE
    /\ results = None
    /\ error = None
    /\ imagePreview = None
    /\ inputFiles = None
    /\ readers = <<>>
    /\ inflight = <<>>
    /\ last = [op |-> "next", ok |-> TRUE, called |-> FALSE, had |-> FALSE, at |-> 1,
               afterAdvance |-> FALSE]

NextImage ==
    \/ ImageEdits
    \/ Navigation

SpecImage == InitImage /\ [][NextImage]_vars

(***************************************************************************)
(* Submission: the wizard filled in from the default record with one valid *)
(* input per field (and the input that clears the description again), a    *)
(* single symptom row, a file that is accepted and read, and every way of  *)
(* submitting and of settling.                                             *)
(***************************************************************************)
SubmitAgeInputs == {Some(30)}
SubmitWeightInputs == {Some(70)}
SubmitDescriptionInputs == {0, 12}

NextSubmit ==
    \/ \E x \in NameInputs : ChangeName(x)
    \/ \E x \in SubmitAgeInputs : ChangeAge(x)
    \/ \E x \in GenderInputs : ChangeGender(x)
    \/ \E x \in SubmitWeightInputs : ChangeWeight(x)
    \/ \E x \in WeightUnitInputs : ChangeWeightUnit(x)
    \/ \E x \in SymptomNameInputs : ChangeSymptomName(1, x)
    \/ \E x \in SeverityInputs : ChangeSeverity(1, x)
    \/ handleImageChange(Some(GoodFile))
    \/ \E i \in 1..MaxReaders : ReaderLoadEnd(i)
    \/ \E n \in SubmitDescriptionInputs : ChangeDescription(n)
    \/ Navigation
    \/ Submission

SpecSubmit == Init /\ [][NextSubmit]_vars

(***************************************************************************)
(* The rules of the specification, section 4.1, stated on the record and   *)
(* not through the schema: the paths that break a per-field rule, and the  *)
(* paths the three cross-field rules attach an error to.  "Present" is     *)
(* "has a value"; a description of length 0 is an absent one.              *)
(***************************************************************************)
FieldRules(v) ==
    {P(f) : f \in {g \in {"name", "gender"} : v[g] = ""}} \cup
    {P("age") : x \in {v.age} \ {Some(n) : n \in 1..150}} \cup
    {P(f) : f \in {g \in {"weight", "height"} : v[g] # None /\ ~(v[g][1] > 0)}} \cup
    {SP(i, "name") : i \in {j \in DOMAIN v.symptoms : v.symptoms[j].name = ""}} \cup
    {SP(i, "severity") : i \in {j \in DOMAIN v.symptoms : v.symptoms[j].severity = ""}} \cup
    {P("medicalImage") : x \in {y \in {v.medicalImage} \ {None} :
                                   y[1].size > 10 * 1024 * 1024 \/
                                   y[1].type \notin ACCEPTED_IMAGE_TYPES}} \cup
    {P("imageDescription") : x \in {y \in {v.imageDescription} \ {None} : y[1] > 1000}}

CrossRules(v) ==
    {P("weightUnit") : x \in {y \in {v.weight} \ {None} : v.weightUnit \in {None, Some("")}}} \cup
    {P("heightUnit") : x \in {y \in {v.height} \ {None} : v.heightUnit \in {None, Some("")}}} \cup
    {P("imageDescription") : x \in {y \in {v.medicalImage} \ {None} :
                                       v.imageDescription \in {None, Some(0)}}}

Rules(v) == FieldRules(v) \cup CrossRules(v)

RulesIn(v, scope) == {p \in Rules(v) : p.f \in scope}

SubmitStep == last'.op = "submit"
FailureStep == last'.op \in {"encodeFailed", "analyzeFailed"}

\* C1: a form submission starts onSubmit, and with it a call of
\* analyzeSymptoms, only when the record breaks none of the per-field rules
\* and none of the three cross-field rules; when it breaks one, nothing is
\* in flight that was not, analyzeSymptoms is not called, and currentStep,
\* isLoading, error and results are what they were.
SubmitValidatesWholeRecord ==
    [][SubmitStep /\ Rules(values) # {} =>
          /\ ~last'.ok /\ ~last'.called
          /\ inflight' = inflight
          /\ UNCHANGED <<currentStep, isLoading, error, results>>]_vars

\* A submission of a record that holds an image and no description, made on
\* the review step, has been refused.
SubmitRefusedOnReview ==
    /\ last.op = "submit" /\ ~last.ok /\ last.at = LastStep
    /\ IsSome(values.medicalImage) /\ ~TruthyNumber(values.imageDescription)
    /\ inflight = << >>

OneSubmissionInFlight ==
    [][/\ Len(inflight') <= 1
       /\ (SubmitStep /\ isLoading => inflight' = inflight)]_vars

NextStep == last'.op = "next"

\* The field paths the specification gives each step, section 4.2.
StepScope(id) ==
    CASE id = "profile" -> {"name", "age", "gender", "weight", "weightUnit",
                            "height", "heightUnit"}
      [] id = "symptoms" -> {"symptoms"}
      [] id = "medical-image" -> {"medicalImage"}
      [] OTHER -> {}

\* C4 as stated: next() on the profile step with a weight and no weight
\* unit, or a height and no height unit, leaves the step index where it is
\* and attaches an error to the missing unit.
NextRejectsMissingUnit ==
    [][NextStep /\ StepId(currentStep) = "profile" =>
          /\ (values.weight # None /\ values.weightUnit = None =>
                 currentStep' = currentStep /\ HasError(errors', "weightUnit"))
          /\ (values.height # None /\ values.heightUnit = None =>
                 currentStep' = currentStep /\ HasError(errors', "heightUnit"))]_vars

\* C5: next() on a step whose scoped paths break no rule adds one to the
\* step index, up to the index of the review step; next() on a step whose
\* scoped paths break a rule leaves the step index as it is.
NextAdvancesWhenScopeValid ==
    [][NextStep =>
          currentStep' = IF RulesIn(values, StepScope(StepId(currentStep))) = {}
                         THEN (IF currentStep + 1 > 4 THEN 4 ELSE currentStep + 1)
                         ELSE currentStep]_vars

\* next() has moved a profile with weight 70 and unit kg on to symptoms.
ValidProfileAdvanced ==
    /\ last.op = "next" /\ last.ok /\ last.at = 0 /\ currentStep = 1
    /\ values.weight = Some(70) /\ values.weightUnit = Some("kg")

\* C6: next() on the profile step adds and removes no error outside the
\* seven profile paths, and leaves the step index where it is exactly when
\* one of the seven breaks a rule.
ProfileScopeOnly ==
    [][NextStep /\ StepId(currentStep) = "profile" =>
          /\ {p \in errors' : p.f \notin StepScope("profile")} =
             {p \in errors : p.f \notin StepScope("profile")}
          /\ (currentStep' = currentStep <=>
                 RulesIn(values, StepScope("profile")) # {})]_vars

\* next() has left the profile step with the single symptom of the default
\* record, empty name and severity, and no error reported.
ProfileAdvancedWithEmptySymptom ==
    /\ last.op = "next" /\ last.ok /\ last.at = 0 /\ currentStep = 1
    /\ values.symptoms = defaultValues.symptoms
    /\ errors = {}

\* C7 as stated: next() on the medical-image step with an image and no
\* description leaves the step index where it is and attaches an error to
\* imageDescription.
NextEnforcesDescription ==
    [][/\ NextStep /\ StepId(currentStep) = "medical-image"
       /\ values.medicalImage # None /\ values.imageDescription \in {None, Some(0)}
       => currentStep' = currentStep /\ HasError(errors', "imageDescription")]_vars

\* C8: when removeImage has run, medicalImage and imageDescription are
\* absent and no error is attached to either.
RemoveImageClearsBoth ==
    last.op = "removeImage" =>
        /\ values.medicalImage = None /\ values.imageDescription = None
        /\ ~HasError(errors, "medicalImage") /\ ~HasError(errors, "imageDescription")

\* removeImage has run on a record that held an image and a description.
RemovedImageAndDescription == last.op = "removeImage" /\ last.had

\* C9: skip() on medical-image or medical-history adds one to the step
\* index and validates nothing, the values and the errors staying as they
\* are; on every other step it changes nothing.
SkipOnlyOptionalSteps ==
    [][last'.op = "skip" =>
          IF StepId(currentStep) \in {"medical-image", "medical-history"}
          THEN currentStep' = currentStep + 1 /\ UNCHANGED <<values, errors, isValid>>
          ELSE UNCHANGED <<values, errors, isValid, isValidWatched, currentStep,
                           isLoading, results, error, imagePreview, inputFiles,
                           readers, inflight>>]_vars

\* skip() has left the medical-image step with an error on the description.
SkippedWithError ==
    /\ last.op = "skip" /\ last.at = 2 /\ currentStep = 3
    /\ HasError(errors, "imageDescription")

\* C10: previous() sets the step index to the greater of index - 1 and 0 and
\* validates nothing: values, errors and validity stay as they are.
PreviousNeverRejected ==
    [][last'.op = "previous" =>
          /\ currentStep' = (IF currentStep - 1 > 0 THEN currentStep - 1 ELSE 0)
          /\ UNCHANGED <<values, errors, isValid>>]_vars

\* previous() has left the symptoms step with errors on its symptoms.
PreviousFromInvalidSymptoms ==
    /\ last.op = "previous" /\ last.at = 1 /\ currentStep = 0
    /\ HasError(errors, "symptoms")

\* C11 (amended): next() and previous() leave the record as it is, and a
\* previous() that follows a next() accepted on a step before review puts
\* the wizard back on the step the next() was called on.
NextPreviousRoundTrip ==
    [][/\ (NextStep \/ last'.op = "previous" => values' = values)
       /\ (/\ last.op = "next" /\ last.ok /\ last.at < LastStep
           /\ last'.op = "previous"
           => currentStep' = last.at)]_vars

\* previous() has undone a next() that had moved the wizard from
\* medical-image to medical-history.
RoundTripDone ==
    /\ last.op = "previous" /\ last.afterAdvance
    /\ last.at = 3 /\ currentStep = 2

\* C11 as stated: a previous() that follows a next() puts the wizard back
\* on the step the next() was called on, whatever that step, with the record
\* as it was.
NextPreviousRoundTripEveryStep ==
    [][last.op = "next" /\ last'.op = "previous" =>
          currentStep' = last.at /\ values' = values]_vars

\* C12 as stated: a form submission made while the wizard is on a step
\* before review sets isLoading for no call of onSubmit and calls
\* analyzeSymptoms for none.
SubmitOnlyOnReview ==
    [][SubmitStep /\ currentStep # LastStep =>
          /\ isLoading' = isLoading /\ inflight' = inflight
          /\ ~last'.called]_vars

\* C13 as stated: when a submission made on the review step completes, by
\* a result or by a failure, after the user has gone back to an earlier
\* step, results and error stay as they are.
StaleCompletionIgnored ==
    [][/\ last'.op \in {"analyzed", "analyzeFailed", "encodeFailed"}
       /\ last'.at = LastStep /\ currentStep # LastStep
       => UNCHANGED <<results, error>>]_vars

\* C14 as stated: when "Start New Assessment" has run, the wizard is on
\* step 0 with the default record, no result, no error, isLoading false
\* and no image preview.
ResetRestoresInitialState ==
    last.op = "reset" =>
        /\ currentStep = 0 /\ values = defaultValues
        /\ results = None /\ error = None
        /\ ~isLoading /\ imagePreview = None

(***************************************************************************)
(* The payload: the wizard on the medical-history step with the steps      *)
(* before it filled in, with or without an image, every text of the        *)
(* bounded length typed into the past conditions, and the submission on    *)
(* the review step.                                                        *)
(***************************************************************************)
filledWithImage ==
    [filledValues EXCEPT !.medicalImage = Some(GoodFile), !.imageDescription = Some(12)]

InitHistory ==
    /\ values \in {filledValues, filledWithImage}
    /\ imagePreview = IF IsSome(values.medicalImage)
                      THEN Some(DataUri(values.medicalImage[1])) ELSE None
    /\ errors = {}
    /\ isValid = TRUE
    /\ isValidWatched = FALSE
    /\ currentStep = 3
    /\ isLoading = FALSE
    /\ results = None
    /\ error = None
    /\ inputFiles = None
    /\ readers = << >>
    /\ inflight = << >>
    /\ last = [op |-> "next", ok |-> TRUE, called |-> FALSE, had |-> FALSE, at |-> 2,
               afterAdvance |-> FALSE]

NextPayload ==
    \/ HistoryEdits
    \/ goToNextStep
    \/ ClickSubmit
    \/ \E i \in 1..MaxInFlight : EncodeDone(i)
    \/ \E i \in 1..MaxInFlight : EncodeFail(i)
    \/ \E i \in 1..MaxInFlight : AnalyzeResolve(i)
    \/ \E i \in 1..MaxInFlight : AnalyzeReject(i)
    \/ StartNewAssessment

SpecPayload == InitHistory /\ [][NextPayload]_vars

\* The comma-separated items of a text, as the specification words them:
\* for each maximal stretch without a comma that holds a character other
\* than the space, the part of it from its first to its last such
\* character, in the order of the text.
Stretch(text, a, b) ==
    /\ \A k \in a..b : text[k] # ","
    /\ (a = 1 \/ text[a - 1] = ",")
    /\ (b = Len(text) \/ text[b + 1] = ",")

ItemAt(text, a, b) ==
    /\ a <= b /\ text[a] \notin {" ", ","} /\ text[b] \notin {" ", ","}
    /\ \E c \in 1..a, d \in b..Len(text) :
          /\ Stretch(text, c, d)
          /\ \A k \in (c..(a - 1)) \cup ((b + 1)..d) : text[k] = " "

Items(text) ==
    LET found == {ab \in (DOMAIN text) \X (DOMAIN text) : ItemAt(text, ab[1], ab[2])}
        nth(i) == CHOOSE ab \in found :
                      Cardinality({x \in found : x[1] < ab[1]}) = i - 1
    IN [i \in 1..Cardinality(found) |-> SubSeq(text, nth(i)[1], nth(i)[2])]

PayloadOf(input, data) ==
    /\ (input.imageDataUri = None <=> data.medicalImage = None)
    /\ input.medicalHistory.pastConditions = Items(data.medicalHistory.pastConditions)
    /\ input.medicalHistory.currentMedications =
           Items(data.medicalHistory.currentMedications)

NextBatch ==
    \/ NextSubmit
    \/ \E n \in 2..MaxBatch : skipStepTimes(n)
    \/ \E n \in 2..MaxBatch : goToNextStepTimes(n)

SpecBatch == Init /\ [][NextBatch]_vars

\* C16 as stated: the step index is one of 0..4 in every reachable state.
StepIndexInRange == currentStep \in 0..4

\* C17 as stated: a read that completes right after removeImage, or right
\* after a selection that was refused or emptied, brings back neither the
\* image nor the preview.
StaleReadIgnored ==
    [][/\ last.op \in {"removeImage", "imageRejected", "imageCleared"}
       /\ last'.op = "loadend"
       => values'.medicalImage = None /\ imagePreview' = None]_vars

\* C18 as stated: a file that is too large or of another type is not
\* stored as medicalImage and leaves an error on medicalImage, and a next()
\* that follows it on the medical-image step is rejected.
RejectedFileBlocksNext ==
    [][/\ (last'.op = "imageRejected" =>
              values'.medicalImage = None /\ HasError(errors', "medicalImage"))
       /\ (last.op = "imageRejected" /\ NextStep => currentStep' = currentStep)]_vars

\* C19: the record holds at least one symptom in every reachable state, and
\* the same record with no symptom left fails the schema with an error on
\* symptoms.
SymptomsNeverEmpty ==
    /\ Len(values.symptoms) >= 1
    /\ P("symptoms") \in formSchema([values EXCEPT !.symptoms = << >>])

\* A symptom has been removed and a single one is left.
RemovedDownToOne == last.op = "remove" /\ Len(values.symptoms) = 1

====
